---------------------------- MODULE Spec2Model ----------------------------
(***************************************************************************)
(* Model of the IBC endpoint of the babylon contract                       *)
(* (contracts/babylon/src/ibc.rs): the channel handshake, the packet       *)
(* receive pipeline with its two handlers, and the ack/timeout entry       *)
(* points.                                                                 *)
(*                                                                         *)
(* Conventions                                                             *)
(*   Option<T>     a sequence of length <= 1: <<>> is None, <<x>> Some(x)  *)
(*   String text   a sequence of text pieces (format! is concatenation)    *)
(*   bytes         a sequence of small naturals                            *)
(*   Result<T,E>   a record with ok: BOOLEAN and the fields of both sides  *)
(***************************************************************************)
EXTENDS Integers, Sequences, FiniteSets, TLC

VARIABLES
    config,     \* CONFIG item of the contract storage (written at instantiation)
    store,      \* number of BTC headers the timestamp collaborator has stored
    chan,       \* host-side handshake state of each channel
    last        \* the last entry-point call: its input and what it returned

vars == <<config, store, chan, last>>

-----------------------------------------------------------------------------
(* Bounds of the model *)

\* total number of records (providers + delegations) carried by one staking packet
MaxRecs == 2
\* cap on the number of stored BTC headers
MaxStore == 1

-----------------------------------------------------------------------------
(* Program constants *)

IBC_VERSION == "zoneconcierge-1"
IBC_ORDERING == "Ordered"

IbcOrder == {"Ordered", "Unordered"}
ChannelIds == {"channel-12", "channel-13"}
\* counterparty versions offered in ChannelOpenTry; <<>> is ChannelOpenInit
CounterpartyVersions == {<<>>, <<IBC_VERSION>>, <<"reflect">>, <<"v1">>}

None == <<>>
Some(x) == <<x>>
IsSome(o) == Len(o) = 1
IsNone(o) == Len(o) = 0

-----------------------------------------------------------------------------
(* Results of the entry points, in one shape *)

NoResult ==
    [ok |-> TRUE, err |-> "", version |-> None, ack |-> None,
     messages |-> <<>>, attributes |-> <<>>, events |-> <<>>]

HostErr(e) == [NoResult EXCEPT !.ok = FALSE, !.err = e]

\* ContractError variants returned by this file
IbcUnorderedChannel == "IbcUnorderedChannel"
IbcInvalidCounterPartyVersion == "IbcInvalidCounterPartyVersion"
IbcUnsupportedMethod == "IbcUnsupportedMethod"

-----------------------------------------------------------------------------
(* Channel handshake *)

ibc_channel_open_wrong_order(order, counterparty_version) ==
    IF IsSome(counterparty_version) /\ counterparty_version[1] # IBC_VERSION
    THEN HostErr(IbcInvalidCounterPartyVersion)
    ELSE [NoResult EXCEPT !.version = Some(IBC_VERSION)]

ibc_channel_open_any_version(order, counterparty_version) ==
    IF order # IBC_ORDERING
    THEN HostErr(IbcUnorderedChannel)
    ELSE [NoResult EXCEPT !.version = Some(IBC_VERSION)]

ibc_channel_open_version_first(order, counterparty_version) ==
    IF IsSome(counterparty_version) /\ counterparty_version[1] # IBC_VERSION
    THEN HostErr(IbcInvalidCounterPartyVersion)
    ELSE IF order # IBC_ORDERING
    THEN HostErr(IbcUnorderedChannel)
    ELSE [NoResult EXCEPT !.version = Some(IBC_VERSION)]

ibc_channel_open(order, counterparty_version) ==
    IF order # IBC_ORDERING
    THEN HostErr(IbcUnorderedChannel)
    ELSE IF IsSome(counterparty_version) /\ counterparty_version[1] # IBC_VERSION
    THEN HostErr(IbcInvalidCounterPartyVersion)
    ELSE [NoResult EXCEPT !.version = Some(IBC_VERSION)]

ibc_channel_connect(channel_id) ==
    [NoResult EXCEPT
        !.attributes = <<<<"action", "ibc_connect">>, <<"channel_id", channel_id>>>>,
        !.events = <<<<"ibc", "channel", "connect">>>>]

ibc_channel_close_untagged(channel_id) ==
    [NoResult EXCEPT
        !.attributes = <<<<"action", "ibc_close">>>>]

ibc_channel_close(channel_id) ==
    [NoResult EXCEPT
        !.attributes = <<<<"action", "ibc_close">>, <<"channel_id", channel_id>>>>]

-----------------------------------------------------------------------------
(* Ack and timeout of packets this contract would have sent *)

ibc_packet_ack_accepts == NoResult

ibc_packet_ack == HostErr(IbcUnsupportedMethod)

ibc_packet_timeout == HostErr(IbcUnsupportedMethod)

-----------------------------------------------------------------------------
(* Errors and acknowledgements of the receive path *)

\* StdError::generic_err(msg); msg is a text
generic_err(msg) == [kind |-> "GenericErr", msg |-> msg]

\* Display of a StdError, as format!("{e}") prints it
Display(e) == <<"Generic error: ">> \o e.msg

\* StdAck::success(vec![]) and StdAck::error(text)
StdAckSuccess == [kind |-> "Success", data |-> <<>>, error |-> <<>>]
StdAckError(text) == [kind |-> "Error", data |-> <<>>, error |-> text]

\* StdResult<T>: Ok(value) or Err(StdError)
Ok(v) == [ok |-> TRUE, value |-> v, error |-> generic_err(<<>>)]
Err(e) == [ok |-> FALSE, value |-> NoResult, error |-> e]

-----------------------------------------------------------------------------
(* cosmwasm_std::Decimal::from_str on a text given as a sequence of characters *)

Digits == {"0", "1", "5"}
DigitVal(c) == IF c = "0" THEN 0 ELSE IF c = "1" THEN 1 ELSE 5

RECURSIVE Pow10(_)
Pow10(n) == IF n = 0 THEN 1 ELSE 10 * Pow10(n - 1)

\* str::split('.'): the pieces between the dots, at least one piece
RECURSIVE SplitDots(_)
SplitDots(s) ==
    IF \A i \in 1..Len(s) : s[i] # "."
    THEN <<s>>
    ELSE LET i == CHOOSE k \in 1..Len(s) :
                      s[k] = "." /\ \A j \in 1..(k - 1) : s[j] # "."
         IN <<SubSeq(s, 1, i - 1)>> \o SplitDots(SubSeq(s, i + 1, Len(s)))

\* str::parse::<Uint128>: a non-empty run of digits
IsUint(s) == Len(s) > 0 /\ \A i \in 1..Len(s) : s[i] \in Digits

RECURSIVE UintVal(_)
UintVal(s) ==
    IF Len(s) = 0 THEN 0
    ELSE 10 * UintVal(SubSeq(s, 1, Len(s) - 1)) + DigitVal(s[Len(s)])

\* The decimal is kept as its whole part and its fraction in units of 10^-9:
\* the fractions of the model have at most 9 digits, so the lower nine of the
\* 18 fractional digits of the atomics are zero.
DecimalFromStr(input) ==
    LET parts == SplitDots(input)
        whole_part == parts[1]
    IN  IF ~IsUint(whole_part)
        THEN Err(generic_err(<<"Error parsing whole">>))
        ELSE IF Len(parts) >= 2 /\ ~IsUint(parts[2])
        THEN Err(generic_err(<<"Error parsing fractional">>))
        ELSE IF Len(parts) >= 2 /\ Len(parts[2]) > 18
        THEN Err(generic_err(<<"Cannot parse more than 18 fractional digits">>))
        ELSE IF Len(parts) >= 3
        THEN Err(generic_err(<<"Unexpected number of dots">>))
        ELSE Ok([whole |-> UintVal(whole_part),
                 frac9 |-> IF Len(parts) >= 2
                           THEN UintVal(parts[2]) * Pow10(9 - Len(parts[2]))
                           ELSE 0])

-----------------------------------------------------------------------------
(* Wire records of a BtcStakingIbcPacket, as the sample values the host delivers *)

\* Binary: the bytes of a wire field, wrapped (x.to_vec().into())
Binary(bytes) == [binary |-> bytes]

DescriptionWire ==
    [moniker |-> "fp-moniker", identity |-> "fp-identity", website |-> "fp-website",
     security_contact |-> "fp-contact", details |-> "fp-details"]

\* commission "0.05", with description and proof of possession
FpFull ==
    [description |-> Some(DescriptionWire), commission |-> <<"0", ".", "0", "5">>,
     addr |-> "bbn1fp", btc_pk_hex |-> "f1", consumer_id |-> "osmosis-1",
     pop |-> Some([btc_sig_type |-> 1, btc_sig |-> <<7, 8>>])]

\* commission "1", the optional parts absent
FpBare ==
    [description |-> None, commission |-> <<"1">>,
     addr |-> "bbn1fq", btc_pk_hex |-> "f2", consumer_id |-> "osmosis-1",
     pop |-> None]

\* commission "1.x5": the fractional part is no number
FpBadCommission ==
    [description |-> None, commission |-> <<"1", ".", "x", "5">>,
     addr |-> "bbn1fr", btc_pk_hex |-> "f3", consumer_id |-> "osmosis-1",
     pop |-> None]

FpSamples == {FpFull, FpBare, FpBadCommission}

CovSigsWire == [cov_pk |-> <<3, 1>>, adaptor_sigs |-> <<<<4, 1>>, <<4, 2>>>>]

UndelegationWire ==
    [unbonding_tx |-> <<5, 1>>, delegator_unbonding_sig |-> <<5, 2>>,
     covenant_unbonding_sig_list |-> <<[pk |-> <<5, 3>>, sig |-> <<5, 4>>]>>,
     slashing_tx |-> <<5, 5>>, delegator_slashing_sig |-> <<5, 6>>,
     covenant_slashing_sigs |-> <<CovSigsWire>>]

DelFull ==
    [staker_addr |-> "bbn1staker", btc_pk_hex |-> "d1", fp_btc_pk_list |-> <<"f1", "f2">>,
     start_height |-> 10, end_height |-> 20, total_sat |-> 1000,
     staking_tx |-> <<1, 2>>, slashing_tx |-> <<2, 1>>,
     delegator_slashing_sig |-> <<2, 2>>, covenant_sigs |-> <<CovSigsWire>>,
     staking_output_idx |-> 1, unbonding_time |-> 5,
     undelegation_info |-> Some(UndelegationWire), params_version |-> 2]

DelBare ==
    [staker_addr |-> "bbn1other", btc_pk_hex |-> "d2", fp_btc_pk_list |-> <<"f2">>,
     start_height |-> 11, end_height |-> 21, total_sat |-> 500,
     staking_tx |-> <<1, 3>>, slashing_tx |-> <<>>,
     delegator_slashing_sig |-> <<>>, covenant_sigs |-> <<>>,
     staking_output_idx |-> 0, unbonding_time |-> 6,
     undelegation_info |-> None, params_version |-> 1]

DelSamples == {DelFull, DelBare}

UnbondedSamples ==
    {[staking_tx_hash |-> "h1", unbonding_tx_sig |-> <<6, 1>>],
     [staking_tx_hash |-> "h2", unbonding_tx_sig |-> <<>>]}

\* the sequences over S of length at most n
SeqsUpTo(S, n) == UNION {[1..k -> S] : k \in 0..n}

\* BtcStakingIbcPacket values: at most MaxRecs records in all, or one record in
\* each of the three sequences
StakingPackets ==
    {p \in [new_fp : SeqsUpTo(FpSamples, MaxRecs),
            active_del : SeqsUpTo(DelSamples, MaxRecs),
            unbonded_del : SeqsUpTo(UnbondedSamples, MaxRecs)] :
        \/ Len(p.new_fp) + Len(p.active_del) + Len(p.unbonded_del) <= MaxRecs
        \/ Len(p.new_fp) = 1 /\ Len(p.active_del) = 1 /\ Len(p.unbonded_del) = 1}

\* BtcTimestamp values: the BTC headers it carries, whether its epoch and
\* checkpoint proofs verify, and whether it carries a message for the Cosmos zone
BtcTimestamps ==
    [btc_headers : {0, 1}, proofs_ok : BOOLEAN, zone_msg : BOOLEAN]

NoStaking == [new_fp |-> <<>>, active_del |-> <<>>, unbonded_del |-> <<>>]
NoTimestamp == [btc_headers |-> 0, proofs_ok |-> FALSE, zone_msg |-> FALSE]

\* packet.data: the bytes on the wire, as what a protobuf reader sees in them:
\* whether they parse at all, and the one envelope field they hold (tag 0: none,
\* tag 3: a field the envelope type does not know)
Payloads ==
    {[wellformed |-> FALSE, tag |-> 0, ts |-> NoTimestamp, staking |-> NoStaking]}
    \cup {[wellformed |-> TRUE, tag |-> t, ts |-> NoTimestamp, staking |-> NoStaking] :
            t \in {0, 3}}
    \cup {[wellformed |-> TRUE, tag |-> 1, ts |-> b, staking |-> NoStaking] :
            b \in BtcTimestamps}
    \cup {[wellformed |-> TRUE, tag |-> 2, ts |-> NoTimestamp, staking |-> p] :
            p \in StakingPackets}

-----------------------------------------------------------------------------
(* Translation of the wire records into the btc-staking ExecuteMsg *)

RECURSIVE Collect_skips_errors(_)
Collect_skips_errors(rs) ==
    IF Len(rs) = 0 THEN Ok(<<>>)
    ELSE LET rest == Collect_skips_errors(Tail(rs))
         IN IF rs[1].ok
            THEN [rest EXCEPT !.value = <<rs[1].value>> \o @]
            ELSE rest

\* the first error of a sequence of results, or the sequence of their values
RECURSIVE Collect(_)
Collect(rs) ==
    IF Len(rs) = 0 THEN Ok(<<>>)
    ELSE IF ~rs[1].ok THEN Err(rs[1].error)
    ELSE LET rest == Collect(Tail(rs))
         IN IF rest.ok THEN Ok(<<rs[1].value>> \o rest.value) ELSE rest

MapSeq(f(_), s) == [i \in 1..Len(s) |-> f(s[i])]

FinalityProviderDescription(d) ==
    [moniker |-> d.moniker, identity |-> d.identity, website |-> d.website,
     security_contact |-> d.security_contact, details |-> d.details]

ProofOfPossessionBtc(pop) ==
    [btc_sig_type |-> pop.btc_sig_type, btc_sig |-> Binary(pop.btc_sig)]

NewFinalityProvider(fp) ==
    LET commission == DecimalFromStr(fp.commission)
    IN  IF ~commission.ok THEN Err(commission.error)
        ELSE Ok([description |-> MapSeq(FinalityProviderDescription, fp.description),
                 commission |-> commission.value,
                 addr |-> fp.addr,
                 btc_pk_hex |-> fp.btc_pk_hex,
                 pop |-> MapSeq(ProofOfPossessionBtc, fp.pop),
                 consumer_id |-> fp.consumer_id])

CovenantAdaptorSignatures(s) ==
    [cov_pk |-> Binary(s.cov_pk), adaptor_sigs |-> MapSeq(Binary, s.adaptor_sigs)]

SignatureInfo(s) == [pk |-> Binary(s.pk), sig |-> Binary(s.sig)]

BtcUndelegationInfo(ui) ==
    [unbonding_tx |-> Binary(ui.unbonding_tx),
     delegator_unbonding_sig |-> Binary(ui.delegator_unbonding_sig),
     covenant_unbonding_sig_list |-> MapSeq(SignatureInfo, ui.covenant_unbonding_sig_list),
     slashing_tx |-> Binary(ui.slashing_tx),
     delegator_slashing_sig |-> Binary(ui.delegator_slashing_sig),
     covenant_slashing_sigs |->
         MapSeq(CovenantAdaptorSignatures, ui.covenant_slashing_sigs)]

ActiveBtcDelegation_swaps_txs(d) ==
    [staker_addr |-> d.staker_addr,
     btc_pk_hex |-> d.btc_pk_hex,
     fp_btc_pk_list |-> d.fp_btc_pk_list,
     start_height |-> d.start_height,
     end_height |-> d.end_height,
     total_sat |-> d.total_sat,
     staking_tx |-> Binary(d.slashing_tx),
     slashing_tx |-> Binary(d.staking_tx),
     delegator_slashing_sig |-> Binary(d.delegator_slashing_sig),
     covenant_sigs |-> MapSeq(CovenantAdaptorSignatures, d.covenant_sigs),
     staking_output_idx |-> d.staking_output_idx,
     unbonding_time |-> d.unbonding_time,
     undelegation_info |-> MapSeq(BtcUndelegationInfo, d.undelegation_info),
     params_version |-> d.params_version]

ActiveBtcDelegation(d) ==
    [staker_addr |-> d.staker_addr,
     btc_pk_hex |-> d.btc_pk_hex,
     fp_btc_pk_list |-> d.fp_btc_pk_list,
     start_height |-> d.start_height,
     end_height |-> d.end_height,
     total_sat |-> d.total_sat,
     staking_tx |-> Binary(d.staking_tx),
     slashing_tx |-> Binary(d.slashing_tx),
     delegator_slashing_sig |-> Binary(d.delegator_slashing_sig),
     covenant_sigs |-> MapSeq(CovenantAdaptorSignatures, d.covenant_sigs),
     staking_output_idx |-> d.staking_output_idx,
     unbonding_time |-> d.unbonding_time,
     undelegation_info |-> MapSeq(BtcUndelegationInfo, d.undelegation_info),
     params_version |-> d.params_version]

UnbondedBtcDelegation(u) ==
    [staking_tx_hash |-> u.staking_tx_hash,
     unbonding_tx_sig |-> Binary(u.unbonding_tx_sig)]

\* ExecuteMsg::BtcStaking { new_fp, active_del, slashed_del, unbonded_del }
BtcStakingExecuteMsg(btc_staking) ==
    LET new_fp == Collect(MapSeq(NewFinalityProvider, btc_staking.new_fp))
    IN  IF ~new_fp.ok THEN Err(new_fp.error)
        ELSE Ok([new_fp |-> new_fp.value,
                 active_del |-> MapSeq(ActiveBtcDelegation, btc_staking.active_del),
                 slashed_del |-> <<>>,
                 unbonded_del |-> MapSeq(UnbondedBtcDelegation, btc_staking.unbonded_del)])

\* to_json_binary(&msg): the serialised message
to_json_binary(msg) == [json |-> msg]

\* WasmMsg::Execute { contract_addr, msg, funds: vec![] }
WasmExecute(contract_addr, msg) ==
    [wasm |-> "execute", contract_addr |-> contract_addr, msg |-> msg, funds |-> <<>>]

-----------------------------------------------------------------------------
(* The timestamp collaborator, crate::state::handle_btc_timestamp: it stores   *)
(* the BTC headers of the timestamp, then verifies the epoch and checkpoint    *)
(* proofs, and returns the message for the Cosmos zone if the timestamp        *)
(* carries one.                                                                *)

BabylonMsg == [babylon_msg |-> "FinalizedHeader"]

state_handle_btc_timestamp(storage, btc_ts) ==
    [storage |-> storage + btc_ts.btc_headers,
     res |-> IF ~btc_ts.proofs_ok
             THEN Err(generic_err(<<"BTC timestamp verification failed">>))
             ELSE Ok(IF btc_ts.zone_msg THEN Some(BabylonMsg) ELSE None)]

-----------------------------------------------------------------------------
(* Handlers of the two packet variants.  Each returns what it leaves in the   *)
(* storage (the stored headers and the CONFIG item, which it only loads) and  *)
(* its StdResult<IbcReceiveResponse>.                                         *)

handle_btc_timestamp_always_notifies(cfg, storage, btc_ts) ==
    LET c == state_handle_btc_timestamp(storage, btc_ts)
        resp == [NoResult EXCEPT
                    !.ack = Some(StdAckSuccess),
                    !.attributes = <<<<"action", "receive_btc_timestamp">>>>]
    IN  IF ~c.res.ok
        THEN [storage |-> c.storage, config |-> cfg, res |-> Err(c.res.error)]
        ELSE [storage |-> c.storage, config |-> cfg,
              res |-> Ok(IF IsSome(c.res.value)
                         THEN [resp EXCEPT !.messages = Append(@, c.res.value[1])]
                         ELSE resp)]

handle_btc_timestamp(cfg, storage, btc_ts) ==
    LET c == state_handle_btc_timestamp(storage, btc_ts)
        resp == [NoResult EXCEPT
                    !.ack = Some(StdAckSuccess),
                    !.attributes = <<<<"action", "receive_btc_timestamp">>>>]
    IN  IF ~c.res.ok
        THEN [storage |-> c.storage, config |-> cfg, res |-> Err(c.res.error)]
        ELSE [storage |-> c.storage, config |-> cfg,
              res |-> Ok(IF IsSome(c.res.value) /\ cfg.notify_cosmos_zone
                         THEN [resp EXCEPT !.messages = Append(@, c.res.value[1])]
                         ELSE resp)]

\* the response of the staking handler around the message it built
StakingResponse_two_calls(wasm_msg) ==
    [NoResult EXCEPT
        !.ack = Some(StdAckSuccess),
        !.messages = <<wasm_msg, wasm_msg>>,
        !.attributes = <<<<"action", "receive_btc_staking">>>>]

StakingResponse(wasm_msg) ==
    [NoResult EXCEPT
        !.ack = Some(StdAckSuccess),
        !.messages = <<wasm_msg>>,
        !.attributes = <<<<"action", "receive_btc_staking">>>>]

handle_btc_staking_default_route(cfg, storage, btc_staking) ==
    LET msg == BtcStakingExecuteMsg(btc_staking)
        addr == IF IsNone(cfg.btc_staking) THEN "" ELSE cfg.btc_staking[1]
    IN  IF ~msg.ok
        THEN [storage |-> storage, config |-> cfg, res |-> Err(msg.error)]
        ELSE [storage |-> storage, config |-> cfg,
              res |-> Ok(StakingResponse(WasmExecute(addr, to_json_binary(msg.value))))]

handle_btc_staking_records_packet(cfg, storage, btc_staking) ==
    IF IsNone(cfg.btc_staking)
    THEN [storage |-> storage, config |-> cfg,
          res |-> Err(generic_err(<<"btc_staking contract not set">>))]
    ELSE LET btc_staking_addr == cfg.btc_staking[1]
             msg == BtcStakingExecuteMsg(btc_staking)
         IN  IF ~msg.ok
             THEN [storage |-> storage, config |-> cfg, res |-> Err(msg.error)]
             ELSE [storage |-> storage + 1, config |-> cfg,
                   res |-> Ok(StakingResponse(
                                WasmExecute(btc_staking_addr, to_json_binary(msg.value))))]

handle_btc_staking_consumes_route(cfg, storage, btc_staking) ==
    IF IsNone(cfg.btc_staking)
    THEN [storage |-> storage, config |-> cfg,
          res |-> Err(generic_err(<<"btc_staking contract not set">>))]
    ELSE LET btc_staking_addr == cfg.btc_staking[1]
             msg == BtcStakingExecuteMsg(btc_staking)
         IN  IF ~msg.ok
             THEN [storage |-> storage, config |-> cfg, res |-> Err(msg.error)]
             ELSE [storage |-> storage, config |-> [cfg EXCEPT !.btc_staking = None],
                   res |-> Ok(StakingResponse(
                                WasmExecute(btc_staking_addr, to_json_binary(msg.value))))]

handle_btc_staking_first_only(cfg, storage, btc_staking) ==
    IF IsNone(cfg.btc_staking)
    THEN [storage |-> storage, config |-> cfg,
          res |-> Err(generic_err(<<"btc_staking contract not set">>))]
    ELSE LET btc_staking_addr == cfg.btc_staking[1]
             msg == BtcStakingExecuteMsg(btc_staking)
             resp == StakingResponse(WasmExecute(btc_staking_addr, to_json_binary(msg.value)))
         IN  IF ~msg.ok
             THEN [storage |-> storage, config |-> cfg, res |-> Err(msg.error)]
             ELSE [storage |-> storage, config |-> cfg,
                   res |-> Ok(IF storage = 0 THEN resp
                              ELSE [resp EXCEPT !.messages = <<>>])]

handle_btc_staking_translates_first(cfg, storage, btc_staking) ==
    LET msg == BtcStakingExecuteMsg(btc_staking)
    IN  IF ~msg.ok
        THEN [storage |-> storage, config |-> cfg, res |-> Err(msg.error)]
        ELSE IF IsNone(cfg.btc_staking)
        THEN [storage |-> storage, config |-> cfg,
              res |-> Err(generic_err(<<"btc_staking contract not set">>))]
        ELSE [storage |-> storage, config |-> cfg,
              res |-> Ok(StakingResponse(
                           WasmExecute(cfg.btc_staking[1], to_json_binary(msg.value))))]

handle_btc_staking(cfg, storage, btc_staking) ==
    IF IsNone(cfg.btc_staking)
    THEN [storage |-> storage, config |-> cfg,
          res |-> Err(generic_err(<<"btc_staking contract not set">>))]
    ELSE LET btc_staking_addr == cfg.btc_staking[1]
             msg == BtcStakingExecuteMsg(btc_staking)
         IN  IF ~msg.ok
             THEN [storage |-> storage, config |-> cfg, res |-> Err(msg.error)]
             ELSE [storage |-> storage, config |-> cfg,
                   res |-> Ok(StakingResponse(
                                WasmExecute(btc_staking_addr, to_json_binary(msg.value))))]

-----------------------------------------------------------------------------
(* ibc_packet_receive *)

\* ZoneconciergePacketData::decode: unparsable bytes are an error; a field the
\* message type does not know is skipped, which leaves the oneof unset
DecodePacketData(data) ==
    IF ~data.wellformed
    THEN Err(generic_err(<<"failed to decode ZoneconciergePacketData: ",
                           "failed to decode Protobuf message">>))
    ELSE Ok([packet |->
                IF data.tag = 1
                THEN Some([variant |-> "BtcTimestamp", ts |-> data.ts,
                           staking |-> NoStaking])
                ELSE IF data.tag = 2
                THEN Some([variant |-> "BtcStaking", ts |-> NoTimestamp,
                           staking |-> data.staking])
                ELSE None])

\* the closure of ibc_packet_receive: decode, then dispatch on the variant.
\* route records which handler ran.
Pipeline_accepts_empty(cfg, storage, data) ==
    LET zc_packet_data == DecodePacketData(data)
    IN  IF ~zc_packet_data.ok
        THEN [storage |-> storage, config |-> cfg, route |-> "none",
              res |-> Err(zc_packet_data.error)]
        ELSE IF IsNone(zc_packet_data.value.packet)
        THEN [storage |-> storage, config |-> cfg, route |-> "none",
              res |-> Ok([NoResult EXCEPT !.ack = Some(StdAckSuccess)])]
        ELSE LET zc_packet == zc_packet_data.value.packet[1]
             IN  IF zc_packet.variant = "BtcTimestamp"
                 THEN [route |-> "timestamp"] @@
                      handle_btc_timestamp(cfg, storage, zc_packet.ts)
                 ELSE [route |-> "staking"] @@
                      handle_btc_staking(cfg, storage, zc_packet.staking)

Pipeline_swaps_routes(cfg, storage, data) ==
    LET zc_packet_data == DecodePacketData(data)
    IN  IF ~zc_packet_data.ok
        THEN [storage |-> storage, config |-> cfg, route |-> "none",
              res |-> Err(zc_packet_data.error)]
        ELSE IF IsNone(zc_packet_data.value.packet)
        THEN [storage |-> storage, config |-> cfg, route |-> "none",
              res |-> Err(generic_err(<<"empty IBC packet">>))]
        ELSE LET zc_packet == zc_packet_data.value.packet[1]
             IN  IF zc_packet.variant = "BtcStaking"
                 THEN [route |-> "timestamp"] @@
                      handle_btc_timestamp(cfg, storage, zc_packet.ts)
                 ELSE [route |-> "staking"] @@
                      handle_btc_staking(cfg, storage, zc_packet.staking)

Pipeline(cfg, storage, data) ==
    LET zc_packet_data == DecodePacketData(data)
    IN  IF ~zc_packet_data.ok
        THEN [storage |-> storage, config |-> cfg, route |-> "none",
              res |-> Err(zc_packet_data.error)]
        ELSE IF IsNone(zc_packet_data.value.packet)
        THEN [storage |-> storage, config |-> cfg, route |-> "none",
              res |-> Err(generic_err(<<"empty IBC packet">>))]
        ELSE LET zc_packet == zc_packet_data.value.packet[1]
             IN  IF zc_packet.variant = "BtcTimestamp"
                 THEN [route |-> "timestamp"] @@
                      handle_btc_timestamp(cfg, storage, zc_packet.ts)
                 ELSE [route |-> "staking"] @@
                      handle_btc_staking(cfg, storage, zc_packet.staking)

\* the error acknowledgement the or_else builds
ErrorAckResponse(e) ==
    [NoResult EXCEPT
        !.ack = Some(StdAckError(<<"invalid packet: ">> \o Display(e))),
        !.events = <<<<"ibc", "packet", "receive">>>>]

\* The entry point: the storage it leaves (it writes through deps.storage and
\* returns Ok, so what the pipeline wrote stays), the handler that ran and the
\* Result<IbcReceiveResponse, Never> it returns.
ibc_packet_receive_propagates(cfg, storage, data) ==
    LET r == Pipeline(cfg, storage, data)
    IN  [storage |-> r.storage, config |-> r.config, route |-> r.route,
         result |-> IF r.res.ok THEN r.res.value ELSE HostErr("StdError")]

ibc_packet_receive(cfg, storage, data) ==
    LET r == Pipeline(cfg, storage, data)
    IN  [storage |-> r.storage, config |-> r.config, route |-> r.route,
         result |-> IF r.res.ok THEN r.res.value ELSE ErrorAckResponse(r.res.error)]

-----------------------------------------------------------------------------
(* State machine: the host calls one entry point at a time *)

\* Config as instantiate may have saved it
Configs == [btc_staking : {None, Some("bbn1btcstaking")}, notify_cosmos_zone : BOOLEAN]

NoPayload == [wellformed |-> TRUE, tag |-> 0, ts |-> NoTimestamp, staking |-> NoStaking]

Call(op, channel_id, order, counterparty_version, data, route, result) ==
    [op |-> op, channel_id |-> channel_id, order |-> order,
     counterparty_version |-> counterparty_version, data |-> data,
     store_before |-> store, route |-> route, result |-> result]

Init ==
    /\ config \in Configs
    /\ store = 0
    /\ chan = [c \in ChannelIds |-> "NONE"]
    /\ last = [op |-> "instantiate", channel_id |-> "", order |-> "",
               counterparty_version |-> None, data |-> NoPayload,
               store_before |-> 0, route |-> "none", result |-> NoResult]

\* the host keeps a channel whose open the contract accepted, and drops the others
HostAfterOpen(state, result) == IF result.ok THEN "INIT" ELSE state

\* ChannelOpenInit / ChannelOpenTry of a channel the host has not opened yet
ChannelOpen(c, order, counterparty_version) ==
    LET result == ibc_channel_open(order, counterparty_version)
    IN  /\ chan[c] = "NONE"
        /\ chan' = [chan EXCEPT ![c] = HostAfterOpen(@, result)]
        /\ last' = Call("channel_open", c, order, counterparty_version, NoPayload,
                        "none", result)
        /\ UNCHANGED <<config, store>>

\* ChannelOpenAck / ChannelOpenConfirm
ChannelConnect(c) ==
    /\ chan[c] = "INIT"
    /\ chan' = [chan EXCEPT ![c] = "OPEN"]
    /\ last' = Call("channel_connect", c, "", None, NoPayload, "none",
                    ibc_channel_connect(c))
    /\ UNCHANGED <<config, store>>

ChannelClose(c) ==
    /\ chan[c] = "OPEN"
    /\ chan' = [chan EXCEPT ![c] = "CLOSED"]
    /\ last' = Call("channel_close", c, "", None, NoPayload, "none",
                    ibc_channel_close(c))
    /\ UNCHANGED <<config, store>>

\* a packet arrives on an open channel (the handlers ignore which one)
PacketReceive(data) ==
    /\ \E c \in ChannelIds : chan[c] = "OPEN"
    /\ \E out \in {ibc_packet_receive(config, store, data)} :
          /\ out.storage <= MaxStore
          /\ store' = out.storage
          /\ config' = out.config
          /\ last' = Call("packet_receive", "", "", None, data, out.route, out.result)
    /\ UNCHANGED chan

PacketAck(c) ==
    /\ last' = Call("packet_ack", c, "", None, NoPayload, "none", ibc_packet_ack)
    /\ UNCHANGED <<config, store, chan>>

PacketTimeout(c) ==
    /\ last' = Call("packet_timeout", c, "", None, NoPayload, "none", ibc_packet_timeout)
    /\ UNCHANGED <<config, store, chan>>

Next ==
    \/ \E c \in ChannelIds, order \in IbcOrder, v \in CounterpartyVersions :
          ChannelOpen(c, order, v)
    \/ \E c \in ChannelIds : ChannelConnect(c)
    \/ \E c \in ChannelIds : ChannelClose(c)
    \/ \E data \in Payloads : PacketReceive(data)
    \/ \E c \in ChannelIds : PacketAck(c)
    \/ \E c \in ChannelIds : PacketTimeout(c)

Spec == Init /\ [][Next]_vars

-----------------------------------------------------------------------------
(* The handshake entry points called in any order: the contract keeps no     *)
(* channel state, so nothing but the return value tells what it accepts.     *)
(* chan follows the calls the contract answered with Ok.                     *)

AfterAccepted(state, result, next) == IF result.ok THEN next ELSE state

AnyOpen(c, order, counterparty_version) ==
    LET result == ibc_channel_open(order, counterparty_version)
    IN  /\ chan' = [chan EXCEPT ![c] = AfterAccepted(@, result, "INIT")]
        /\ last' = Call("channel_open", c, order, counterparty_version, NoPayload,
                        "none", result)
        /\ UNCHANGED <<config, store>>

AnyConnect(c) ==
    LET result == ibc_channel_connect(c)
    IN  /\ chan' = [chan EXCEPT ![c] = AfterAccepted(@, result, "OPEN")]
        /\ last' = Call("channel_connect", c, "", None, NoPayload, "none", result)
        /\ UNCHANGED <<config, store>>

AnyClose(c) ==
    LET result == ibc_channel_close(c)
    IN  /\ chan' = [chan EXCEPT ![c] = AfterAccepted(@, result, "CLOSED")]
        /\ last' = Call("channel_close", c, "", None, NoPayload, "none", result)
        /\ UNCHANGED <<config, store>>

NextAnyOrder ==
    \/ \E c \in ChannelIds, order \in IbcOrder, v \in CounterpartyVersions :
          AnyOpen(c, order, v)
    \/ \E c \in ChannelIds : AnyConnect(c)
    \/ \E c \in ChannelIds : AnyClose(c)

SpecAnyOrder == Init /\ [][NextAnyOrder]_vars

-----------------------------------------------------------------------------
(* Vocabulary of the properties *)

Received == last.op = "packet_receive"
ReceivedTimestamp == Received /\ last.data.wellformed /\ last.data.tag = 1
ReceivedStaking == Received /\ last.data.wellformed /\ last.data.tag = 2
ReceivedEmpty == Received /\ last.data.wellformed /\ last.data.tag = 0
ReceivedUnknown == Received /\ last.data.wellformed /\ last.data.tag \notin {0, 1, 2}

HasAck(kind) == Len(last.result.ack) = 1 /\ last.result.ack[1].kind = kind

\* the text of an error acknowledgement whose cause is the generic error msg
AckTextOf(msg) == <<"invalid packet: ", "Generic error: ">> \o msg

EmptyPacketText == AckTextOf(<<"empty IBC packet">>)
DecodeFailureText ==
    AckTextOf(<<"failed to decode ZoneconciergePacketData: ",
                "failed to decode Protobuf message">>)
NoRouteText == AckTextOf(<<"btc_staking contract not set">>)

\* a decimal text, stated apart from the parser: digits, or digits "." digits
IsDecimalText(s) ==
    \/ IsUint(s)
    \/ \E k \in 1..Len(s) :
          /\ s[k] = "."
          /\ IsUint(SubSeq(s, 1, k - 1))
          /\ IsUint(SubSeq(s, k + 1, Len(s)))
          /\ Len(s) - k <= 18

AllCommissionsParse(p) == \A i \in 1..Len(p.new_fp) : IsDecimalText(p.new_fp[i].commission)

-----------------------------------------------------------------------------
(* C1: every call of ibc_packet_receive returns a host-level success that    *)
(* carries exactly one acknowledgement, Success or Error, and a payload that *)
(* does not decode is acknowledged with Error.                               *)
C1_ReceiveAlwaysAcknowledges ==
    Received =>
        /\ last.result.ok
        /\ last.result.err = ""
        /\ Len(last.result.ack) = 1
        /\ last.result.ack[1].kind \in {"Success", "Error"}
        /\ (~last.data.wellformed =>
                /\ last.result.ack[1].kind = "Error"
                /\ last.result.ack[1].error = DecodeFailureText)

C1_Witness == Received /\ ~last.data.wellformed /\ last.result.ok /\ HasAck("Error")

(* C2: when ibc_packet_receive acknowledges with Error, the storage after the *)
(* call equals the storage before it and the response carries no message.     *)
C2_ErrorAckRetainsNothing ==
    (Received /\ HasAck("Error")) =>
        /\ store = last.store_before
        /\ last.result.messages = <<>>

(* C3: a channel open whose ordering is not Ordered is rejected with          *)
(* IbcUnorderedChannel whatever the counterparty version, and the channel     *)
(* is not opened.                                                             *)
C3_UnorderedOpenRejected ==
    (last.op = "channel_open" /\ last.order # "Ordered") =>
        /\ ~last.result.ok
        /\ last.result.err = IbcUnorderedChannel
        /\ last.result.version = None
        /\ chan[last.channel_id] = "NONE"

C3_Witness ==
    /\ last.op = "channel_open"
    /\ last.order = "Unordered"
    /\ last.counterparty_version = <<"zoneconcierge-1">>
    /\ ~last.result.ok

(* C4: on an Ordered channel, open fails when a counterparty version is       *)
(* present and differs from "zoneconcierge-1", and otherwise succeeds and     *)
(* returns "zoneconcierge-1".                                                 *)
C4_OrderedOpenChecksVersion ==
    (last.op = "channel_open" /\ last.order = "Ordered") =>
        IF Len(last.counterparty_version) = 1
           /\ last.counterparty_version[1] # "zoneconcierge-1"
        THEN /\ ~last.result.ok
             /\ last.result.err = IbcInvalidCounterPartyVersion
             /\ chan[last.channel_id] = "NONE"
        ELSE /\ last.result.ok
             /\ last.result.version = <<"zoneconcierge-1">>

C4_Witness ==
    /\ last.op = "channel_open"
    /\ last.order = "Ordered"
    /\ last.counterparty_version = None
    /\ last.result.ok
    /\ last.result.version = <<"zoneconcierge-1">>

(* C5: a StakingEvent packet received while Config has no staking contract    *)
(* address is acknowledged with Error, citing the missing contract, and the   *)
(* response holds no outbound call.                                           *)
C5_StakingWithoutRouteIsError ==
    (ReceivedStaking /\ IsNone(config.btc_staking)) =>
        /\ HasAck("Error")
        /\ last.result.ack[1].error = NoRouteText
        /\ last.result.messages = <<>>

C5_Witness ==
    /\ ReceivedStaking
    /\ IsNone(config.btc_staking)
    /\ Len(last.data.staking.active_del) = 1
    /\ HasAck("Error")

(* C6: a StakingEvent packet handled with a staking address configured and    *)
(* every commission parsable is acknowledged with Success and produces        *)
(* exactly one call, to the configured staking contract, that holds the three *)
(* sequences of the packet, record for record, and no slashed delegation.     *)
C6_StakingSuccessMakesOneCall ==
    (ReceivedStaking /\ IsSome(config.btc_staking)
        /\ AllCommissionsParse(last.data.staking)) =>
        /\ HasAck("Success")
        /\ Len(last.result.messages) = 1
        /\ LET call == last.result.messages[1]
               wire == last.data.staking
               sent == call.msg.json
           IN  /\ call.wasm = "execute"
               /\ call.contract_addr = config.btc_staking[1]
               /\ call.funds = <<>>
               /\ Len(sent.new_fp) = Len(wire.new_fp)
               /\ \A i \in 1..Len(wire.new_fp) :
                     sent.new_fp[i].btc_pk_hex = wire.new_fp[i].btc_pk_hex
               /\ Len(sent.active_del) = Len(wire.active_del)
               /\ \A i \in 1..Len(wire.active_del) :
                     /\ sent.active_del[i].btc_pk_hex = wire.active_del[i].btc_pk_hex
                     /\ sent.active_del[i].staking_tx.binary = wire.active_del[i].staking_tx
               /\ Len(sent.unbonded_del) = Len(wire.unbonded_del)
               /\ \A i \in 1..Len(wire.unbonded_del) :
                     sent.unbonded_del[i].staking_tx_hash =
                         wire.unbonded_del[i].staking_tx_hash
               /\ sent.slashed_del = <<>>

C6_Witness ==
    /\ ReceivedStaking
    /\ IsSome(config.btc_staking)
    /\ Len(last.data.staking.new_fp) = 1
    /\ Len(last.data.staking.active_del) = 1
    /\ Len(last.data.staking.unbonded_del) = 1
    /\ HasAck("Success")
    /\ Len(last.result.messages) = 1

(* C7: a TimestampRelay packet on which the collaborator succeeds is          *)
(* acknowledged with Success, and the response holds the collaborator's       *)
(* message exactly when it produced one and notify_cosmos_zone is set.        *)
C7_NotifyFlagGatesMessage ==
    (ReceivedTimestamp /\ last.data.ts.proofs_ok) =>
        /\ HasAck("Success")
        /\ last.result.messages =
               IF last.data.ts.zone_msg /\ config.notify_cosmos_zone
               THEN <<BabylonMsg>>
               ELSE <<>>

C7_Witness ==
    /\ ReceivedTimestamp
    /\ last.data.ts.proofs_ok
    /\ last.data.ts.zone_msg
    /\ ~config.notify_cosmos_zone
    /\ HasAck("Success")
    /\ last.result.messages = <<>>

(* C8: ibc_packet_ack and ibc_packet_timeout fail with IbcUnsupportedMethod   *)
(* on every call and leave the storage as it was.                             *)
C8_AckAndTimeoutUnsupported ==
    (last.op \in {"packet_ack", "packet_timeout"}) =>
        /\ ~last.result.ok
        /\ last.result.err = IbcUnsupportedMethod
        /\ last.result.ack = None
        /\ last.result.messages = <<>>
        /\ store = last.store_before

C8_Witness ==
    /\ last.op = "packet_ack"
    /\ store > 0
    /\ \E c \in ChannelIds : chan[c] = "OPEN"
    /\ ~last.result.ok

(* C9: an envelope with no variant populated is acknowledged with Error, the  *)
(* message being the empty-packet one, and no handler runs.                   *)
C9_EmptyPacketIsError ==
    ReceivedEmpty =>
        /\ HasAck("Error")
        /\ last.result.ack[1].error = EmptyPacketText
        /\ last.route = "none"
        /\ last.result.messages = <<>>
        /\ last.result.attributes = <<>>
        /\ store = last.store_before

C9_Witness == ReceivedEmpty /\ HasAck("Error") /\ last.route = "none"

(* C10, as claimed: a packet carrying an unknown variant fails with an error  *)
(* distinct from the empty-packet and the decode errors; TimestampRelay goes  *)
(* only to the timestamp handler and StakingEvent only to the staking one.    *)
C10_UnknownVariantHasOwnError ==
    /\ ReceivedUnknown =>
          /\ HasAck("Error")
          /\ last.result.ack[1].error \notin {EmptyPacketText, DecodeFailureText}
    /\ Received => (last.route = "timestamp" <=> ReceivedTimestamp)
    /\ Received => (last.route = "staking" <=> ReceivedStaking)

(* C10, amended: a packet carrying an unknown variant is acknowledged with    *)
(* Error, the same empty-packet error as an envelope with no variant, and no  *)
(* handler runs; TimestampRelay goes only to the timestamp handler and        *)
(* StakingEvent only to the staking handler.                                  *)
C10_UnknownVariantIsEmptyError ==
    /\ ReceivedUnknown =>
          /\ HasAck("Error")
          /\ last.result.ack[1].error = EmptyPacketText
          /\ last.route = "none"
          /\ last.result.messages = <<>>
    /\ Received => (last.route = "timestamp" <=> ReceivedTimestamp)
    /\ Received => (last.route = "staking" <=> ReceivedStaking)

C10_Witness == ReceivedUnknown /\ HasAck("Error") /\ last.route = "none"


(* C11, as claimed: over any sequence of open, connect and close events a     *)
(* channel that reached CLOSED never returns to OPEN, and the endpoint does   *)
(* not accept connect or close for a channel whose open it has just rejected. *)
C11_EndpointEnforcesLifecycle ==
    [][/\ \A c \in ChannelIds : chan[c] = "CLOSED" => chan'[c] # "OPEN"
       /\ (/\ last.op = "channel_open"
           /\ ~last.result.ok
           /\ last'.op \in {"channel_connect", "channel_close"}
           /\ last'.channel_id = last.channel_id) => ~last'.result.ok]_vars

(* C11, amended: the endpoint checks only open.  Whatever the order of the   *)
(* events, a channel becomes INIT only by an accepted open (Ordered, the      *)
(* counterparty version absent or "zoneconcierge-1"), OPEN only by a connect  *)
(* and CLOSED only by a close; a rejected open changes no channel; connect    *)
(* and close are accepted in every state, so the order INIT -> OPEN -> CLOSED *)
(* without reopen is as good as the order in which the host delivers them.    *)
C11_OnlyOpenIsChecked ==
    [][/\ \A c \in ChannelIds :
             chan'[c] # chan[c] =>
                /\ last'.channel_id = c
                /\ last'.result.ok
                /\ chan'[c] = "INIT" =>
                      /\ last'.op = "channel_open"
                      /\ last'.order = "Ordered"
                      /\ last'.counterparty_version \in {<<>>, <<"zoneconcierge-1">>}
                /\ chan'[c] = "OPEN" => last'.op = "channel_connect"
                /\ chan'[c] = "CLOSED" => last'.op = "channel_close"
                /\ chan'[c] # "NONE"
       /\ ~last'.result.ok => (last'.op = "channel_open" /\ chan' = chan)
       /\ last'.op \in {"channel_connect", "channel_close"} => last'.result.ok]_vars

C11_Witness ==
    /\ last.op = "channel_open"
    /\ ~last.result.ok
    /\ chan[last.channel_id] = "CLOSED"

(* C12: no channel event and no received packet, handled or failed, of       *)
(* either variant, changes Config: it stays as instantiation saved it.        *)
C12_ConfigNeverMutated == [][config' = config]_vars

C12_Witness ==
    /\ ReceivedStaking
    /\ HasAck("Success")
    /\ store = 1
    /\ \E c \in ChannelIds : chan[c] = "CLOSED"
    /\ config = [btc_staking |-> <<"bbn1btcstaking">>, notify_cosmos_zone |-> TRUE]

DecimalErrorTexts ==
    {AckTextOf(<<m>>) : m \in {"Error parsing whole", "Error parsing fractional",
                               "Cannot parse more than 18 fractional digits",
                               "Unexpected number of dots"}}

C14_BadCommissionFailsWholePacket ==
    (ReceivedStaking /\ ~AllCommissionsParse(last.data.staking)) =>
        /\ HasAck("Error")
        /\ last.result.messages = <<>>
        /\ IsSome(config.btc_staking) => last.result.ack[1].error \in DecimalErrorTexts

C14_Witness ==
    /\ ReceivedStaking
    /\ IsSome(config.btc_staking)
    /\ Len(last.data.staking.new_fp) = 2
    /\ IsDecimalText(last.data.staking.new_fp[1].commission)
    /\ ~IsDecimalText(last.data.staking.new_fp[2].commission)
    /\ HasAck("Error")
    /\ last.result.messages = <<>>

(* C15: in the outbound call each of new_fp, active_del and unbonded_del has   *)
(* the length of the wire sequence, and its i-th element is the image of the  *)
(* i-th wire record: text and numeric fields equal, byte fields the same      *)
(* bytes, optional parts present exactly when they are on the wire.           *)

\* sent is the image of the wire value w, stated field by field
SameBytes(sent, w) == sent.binary = w

SameBytesList(sent, w) ==
    Len(sent) = Len(w) /\ \A i \in 1..Len(w) : SameBytes(sent[i], w[i])

CovSigsImage(sent, w) ==
    Len(sent) = Len(w) /\
    \A i \in 1..Len(w) :
        /\ SameBytes(sent[i].cov_pk, w[i].cov_pk)
        /\ SameBytesList(sent[i].adaptor_sigs, w[i].adaptor_sigs)

UndelegationImage(sent, w) ==
    /\ SameBytes(sent.unbonding_tx, w.unbonding_tx)
    /\ SameBytes(sent.delegator_unbonding_sig, w.delegator_unbonding_sig)
    /\ Len(sent.covenant_unbonding_sig_list) = Len(w.covenant_unbonding_sig_list)
    /\ \A i \in 1..Len(w.covenant_unbonding_sig_list) :
          /\ SameBytes(sent.covenant_unbonding_sig_list[i].pk,
                       w.covenant_unbonding_sig_list[i].pk)
          /\ SameBytes(sent.covenant_unbonding_sig_list[i].sig,
                       w.covenant_unbonding_sig_list[i].sig)
    /\ SameBytes(sent.slashing_tx, w.slashing_tx)
    /\ SameBytes(sent.delegator_slashing_sig, w.delegator_slashing_sig)
    /\ CovSigsImage(sent.covenant_slashing_sigs, w.covenant_slashing_sigs)

FpImage(sent, w) ==
    /\ sent.addr = w.addr
    /\ sent.btc_pk_hex = w.btc_pk_hex
    /\ sent.consumer_id = w.consumer_id
    /\ Len(sent.description) = Len(w.description)
    /\ \A i \in 1..Len(w.description) : sent.description[i] = w.description[i]
    /\ Len(sent.pop) = Len(w.pop)
    /\ \A i \in 1..Len(w.pop) :
          /\ sent.pop[i].btc_sig_type = w.pop[i].btc_sig_type
          /\ SameBytes(sent.pop[i].btc_sig, w.pop[i].btc_sig)

DelImage(sent, w) ==
    /\ sent.staker_addr = w.staker_addr
    /\ sent.btc_pk_hex = w.btc_pk_hex
    /\ sent.fp_btc_pk_list = w.fp_btc_pk_list
    /\ sent.start_height = w.start_height
    /\ sent.end_height = w.end_height
    /\ sent.total_sat = w.total_sat
    /\ SameBytes(sent.staking_tx, w.staking_tx)
    /\ SameBytes(sent.slashing_tx, w.slashing_tx)
    /\ SameBytes(sent.delegator_slashing_sig, w.delegator_slashing_sig)
    /\ CovSigsImage(sent.covenant_sigs, w.covenant_sigs)
    /\ sent.staking_output_idx = w.staking_output_idx
    /\ sent.unbonding_time = w.unbonding_time
    /\ Len(sent.undelegation_info) = Len(w.undelegation_info)
    /\ \A i \in 1..Len(w.undelegation_info) :
          UndelegationImage(sent.undelegation_info[i], w.undelegation_info[i])
    /\ sent.params_version = w.params_version

UnbondedImage(sent, w) ==
    /\ sent.staking_tx_hash = w.staking_tx_hash
    /\ SameBytes(sent.unbonding_tx_sig, w.unbonding_tx_sig)

C15_TranslationKeepsEveryRecord ==
    (ReceivedStaking /\ HasAck("Success") /\ Len(last.result.messages) = 1) =>
        LET wire == last.data.staking
            sent == last.result.messages[1].msg.json
        IN  /\ Len(sent.new_fp) = Len(wire.new_fp)
            /\ \A i \in 1..Len(wire.new_fp) : FpImage(sent.new_fp[i], wire.new_fp[i])
            /\ Len(sent.active_del) = Len(wire.active_del)
            /\ \A i \in 1..Len(wire.active_del) :
                  DelImage(sent.active_del[i], wire.active_del[i])
            /\ Len(sent.unbonded_del) = Len(wire.unbonded_del)
            /\ \A i \in 1..Len(wire.unbonded_del) :
                  UnbondedImage(sent.unbonded_del[i], wire.unbonded_del[i])

C15_Witness ==
    /\ ReceivedStaking
    /\ HasAck("Success")
    /\ Len(last.result.messages) = 1
    /\ Len(last.data.staking.active_del) = 2
    /\ last.data.staking.active_del[1] # last.data.staking.active_del[2]
    /\ Len(last.data.staking.active_del[1].undelegation_info) = 1

(* C16: translation is deterministic and stateless.  A staking packet handled *)
(* under the same Config gives the same response, and so the same outbound    *)
(* call arguments, whatever the packets received before it have left in the   *)
(* storage: the response just returned is the one the entry point returns for *)
(* this packet from every storage content.                                    *)
C16_StakingResponseIgnoresHistory ==
    ReceivedStaking =>
        \A s \in 0..MaxStore :
            LET again == ibc_packet_receive(config, s, last.data)
            IN  /\ again.result = last.result
                /\ again.config = config

\* a staking packet translated after earlier packets have written headers
C16_Witness ==
    /\ ReceivedStaking
    /\ HasAck("Success")
    /\ Len(last.result.messages) = 1
    /\ last.store_before > 0

(* C17: connect and close always succeed and leave the contract state alone:  *)
(* every step that is a connect or a close call returns Ok, leaves Config and *)
(* the stored headers as they were (close erases nothing), and its response   *)
(* carries the attribute channel_id with the id of the channel it was called  *)
(* for.                                                                       *)
TaggedWith(result, channel_id) ==
    \E i \in 1..Len(result.attributes) :
        result.attributes[i] = <<"channel_id", channel_id>>

HandledAsFrom(storage) ==
    LET clean == ibc_packet_receive(config, storage, last'.data)
    IN  /\ last'.result = clean.result
        /\ store' = clean.storage
        /\ config' = clean.config

C18_OwnFailuresLeaveNoTrace ==
    [][(Received /\ HasAck("Error") /\ ~ReceivedTimestamp
            /\ last'.op = "packet_receive") =>
          HandledAsFrom(last.store_before)]_vars

(* C19: in channel-open the ordering check comes before the version check: an *)
(* attempt that is Unordered and carries a counterparty version other than    *)
(* IBC_VERSION is rejected with the unordered-channel error, never with the   *)
(* version-mismatch error.                                                    *)
C19_OrderingCheckedBeforeVersion ==
    (/\ last.op = "channel_open"
     /\ last.order # IBC_ORDERING
     /\ IsSome(last.counterparty_version)
     /\ last.counterparty_version[1] # IBC_VERSION) =>
        /\ ~last.result.ok
        /\ last.result.err = IbcUnorderedChannel
        /\ last.result.err # IbcInvalidCounterPartyVersion

C19_Witness ==
    /\ last.op = "channel_open"
    /\ last.order = "Unordered"
    /\ IsSome(last.counterparty_version)
    /\ last.counterparty_version[1] # IBC_VERSION
    /\ last.result.err = IbcUnorderedChannel

(* C20: in the staking handler the routing check comes before translation.    *)
(* A staking packet received with no staking address configured is answered   *)
(* with the missing-contract error even when a finality provider's commission *)
(* does not parse; an invalid-decimal error implies an address is configured. *)
C20_RouteCheckedBeforeTranslation ==
    ReceivedStaking =>
        /\ IsNone(config.btc_staking) =>
              HasAck("Error") /\ last.result.ack[1].error = NoRouteText
        /\ (HasAck("Error") /\ last.result.ack[1].error \in DecimalErrorTexts) =>
              IsSome(config.btc_staking)

C20_Witness ==
    /\ ReceivedStaking
    /\ IsNone(config.btc_staking)
    /\ ~AllCommissionsParse(last.data.staking)
    /\ HasAck("Error")
    /\ last.result.ack[1].error = NoRouteText

=============================================================================
